---- MODULE Spec2Model ----
(***************************************************************************)
(* RunFlash API (src/main.py, src/schemas.py): five HTTP endpoints over    *)
(* three document collections (subscriber, saleevent, saleproduct).        *)
(*                                                                         *)
(* Documents and JSON payloads are functions from field names to values;   *)
(* a field that is missing is not in the DOMAIN.  Python's None is the     *)
(* value None below.  Strings that the code inspects or transforms         *)
(* (e-mail addresses, exception messages, identifiers) are sequences of    *)
(* one-character strings; strings that are only carried around are TLA+    *)
(* strings.  The status texts of GET /test are written without the emoji   *)
(* prefix of the source.                                                   *)
(***************************************************************************)
EXTENDS Integers, Sequences, FiniteSets, TLC

VARIABLES dbAvailable, env, subscriber, saleevent, saleproduct, clock, reqs, resp

vars == <<dbAvailable, env, subscriber, saleevent, saleproduct, clock, reqs, resp>>

collections == <<subscriber, saleevent, saleproduct>>

(* ------------------------------ bounds ---------------------------------- *)
MaxReq == 2          \* subscribe requests per run
MaxTime == 3         \* clock values 1..MaxTime, end_at values 0..MaxTime
MaxEvents == 52      \* largest stored saleevent collection
MaxProducts == 202   \* largest stored saleproduct collection
MaxMsgLen == 121     \* longest driver exception message
SmallSize == 2       \* a small collection

(* ------------------------- program constants ---------------------------- *)
EventLimit == 50
ProductLimit == 200
CollectionsCut == 20
InnerErrorCut == 80
\* The cut of test_database's outer handler, which nothing in its try block
\* can reach; the longest cut of a message the program makes.
OuterErrorCut == 120

(* ------------------------------ helpers --------------------------------- *)
None == "<None>"

Min(a, b) == IF a < b THEN a ELSE b

Range(s) == {s[i] : i \in 1..Len(s)}

Take(s, n) == SubSeq(s, 1, Min(n, Len(s)))

\* dict.get(key, default)
Get(d, k, default) == IF k \in DOMAIN d THEN d[k] ELSE default

Msg(n) == [i \in 1..n |-> "x"]

Digit(n) == CASE n = 0 -> "0" [] n = 1 -> "1" [] n = 2 -> "2" [] n = 3 -> "3"
              [] n = 4 -> "4" [] n = 5 -> "5" [] n = 6 -> "6" [] n = 7 -> "7"
              [] n = 8 -> "8" [] n = 9 -> "9"

RECURSIVE PyStr(_)
\* str(_id): the identifier rendered as text
PyStr(n) == IF n < 10 THEN <<Digit(n)>> ELSE Append(PyStr(n \div 10), Digit(n % 10))

(* ------------------------ e-mail validation ----------------------------- *)
Lower(c) == CASE c = "A" -> "a" [] c = "B" -> "b" [] c = "C" -> "c" [] OTHER -> c

IndexesOf(s, c) == {i \in 1..Len(s) : s[i] = c}

LocalPart(s) == SubSeq(s, 1, (CHOOSE i \in IndexesOf(s, "@") : TRUE) - 1)

DomainPart(s) == SubSeq(s, (CHOOSE i \in IndexesOf(s, "@") : TRUE) + 1, Len(s))

\* A validation that only looks for the "@".
EmailValid_OnlyAt(s) == Cardinality(IndexesOf(s, "@")) = 1

\* EmailStr accepts a string with exactly one "@", a non-empty local part
\* and a dotted domain whose labels are non-empty.
EmailValid(s) ==
    /\ Cardinality(IndexesOf(s, "@")) = 1
    /\ LocalPart(s) # <<>>
    /\ LET d == DomainPart(s)
       IN /\ d # <<>>
          /\ IndexesOf(d, ".") # {}
          /\ d[1] # "."
          /\ d[Len(d)] # "."
          /\ \A i \in 1..(Len(d) - 1) : ~(d[i] = "." /\ d[i + 1] = ".")

\* The value EmailStr yields for a valid address: the local part as given,
\* the domain in lower case.
NormalizeEmail(s) ==
    LET d == DomainPart(s)
    IN LocalPart(s) \o <<"@">> \o [i \in 1..Len(d) |-> Lower(d[i])]

(* --------------------------- schema models ------------------------------ *)
SubscriberFields == {"email", "first_name", "sale_event_id", "source", "accepted_marketing"}

\* Request validation of the JSON body against SubscribePayload.
PayloadValid(p) == "email" \in DOMAIN p /\ EmailValid(p["email"])

\* A payload model whose source and accepted_marketing have no default.
SubscribePayload_NoDefaults(p) ==
    [email              |-> NormalizeEmail(p["email"]),
     first_name         |-> Get(p, "first_name", None),
     sale_event_id      |-> Get(p, "sale_event_id", None),
     source             |-> Get(p, "source", None),
     accepted_marketing |-> Get(p, "accepted_marketing", FALSE)]

\* SubscribePayload(**body).model_dump(): the validated fields, defaults
\* filled in for the fields the body omits.
SubscribePayload(p) ==
    [email              |-> NormalizeEmail(p["email"]),
     first_name         |-> Get(p, "first_name", None),
     sale_event_id      |-> Get(p, "sale_event_id", None),
     source             |-> Get(p, "source", "landing"),
     accepted_marketing |-> Get(p, "accepted_marketing", TRUE)]

\* Subscriber(**payload.model_dump()).model_dump()
Subscriber(d) ==
    [email              |-> NormalizeEmail(d["email"]),
     first_name         |-> Get(d, "first_name", None),
     sale_event_id      |-> Get(d, "sale_event_id", None),
     source             |-> Get(d, "source", "landing"),
     accepted_marketing |-> Get(d, "accepted_marketing", TRUE)]

(* ------------------------- persistence accessor ------------------------- *)
\* The message of the failure create_document / get_documents signal when
\* there is no connection.
DbUnavailableMsg ==
    <<"D", "a", "t", "a", "b", "a", "s", "e", " ", "n", "o", "t", " ",
      "a", "v", "a", "i", "l", "a", "b", "l", "e">>

\* The identifier the database generates for the next document of coll.
NewId(coll) == Len(coll) + 1

\* create_document: the collection after the insert of data.
InsertOne(coll, data) ==
    Append(coll, [k \in DOMAIN data \cup {"_id"} |->
                     IF k = "_id" THEN NewId(coll) ELSE data[k]])

\* create_document: the identifier it returns.
InsertedId(coll) == PyStr(NewId(coll))

\* find(filter): the documents of coll the filter matches, in stored order.
\* matches is the set of matching documents.
Find(coll, matches) == SelectSeq(coll, LAMBDA d : d \in matches)

\* get_documents(collection, filter, limit)
get_documents(coll, matches, limit) == Take(Find(coll, matches), limit)

\* A filter with $gt in place of $gte.
EndAtGte_Strict(coll, now) == {d \in Range(coll) : "end_at" \in DOMAIN d /\ d["end_at"] > now}

\* {"end_at": {"$gte": now}}
EndAtGte(coll, now) == {d \in Range(coll) : "end_at" \in DOMAIN d /\ d["end_at"] >= now}

\* A filter that matches every product.
SaleEventIdIs_Any(coll, event_id) == Range(coll)

\* {"sale_event_id": event_id}
SaleEventIdIs(coll, event_id) ==
    {d \in Range(coll) : "sale_event_id" \in DOMAIN d /\ d["sale_event_id"] = event_id}

\* db.list_collection_names(): a collection exists once it holds a document.
list_collection_names ==
    (IF subscriber # <<>> THEN <<"subscriber">> ELSE <<>>)
    \o (IF saleevent # <<>> THEN <<"saleevent">> ELSE <<>>)
    \o (IF saleproduct # <<>> THEN <<"saleproduct">> ELSE <<>>)


(* --------------------------- stored documents --------------------------- *)
\* The saleevent and saleproduct collections are filled from outside the
\* program.  A collection is described by its size and a layout that fixes
\* each document's fields from its position.
EventLayouts == {"future", "past", "late", "mixed"}

ProductLayouts == {"one", "mixed", "other"}

EventIds == {"ev1", "ev2", "ev9"}

EventKeys(i, layout) ==
    {"_id", "title", "start_at", "brand_ids", "categories", "status"}
    \cup (IF layout = "mixed" /\ i % 5 = 0 THEN {} ELSE {"end_at"})
    \cup (IF i % 2 = 0 THEN {"subtitle", "banner_url"} ELSE {})

\* A stored SaleEvent document.
EventDoc(i, layout) ==
    [k \in EventKeys(i, layout) |->
        CASE k = "_id" -> i
          [] k = "title" -> "Vente"
          [] k = "subtitle" -> "Teaser"
          [] k = "banner_url" -> "banner.png"
          [] k = "start_at" -> 0
          [] k = "end_at" -> (CASE layout = "future" -> MaxTime
                                [] layout = "past" -> 0
                                [] layout = "late" -> (IF i = 1 THEN 0 ELSE MaxTime)
                                [] OTHER -> i % (MaxTime + 1))
          [] k = "brand_ids" -> <<"b1">>
          [] k = "categories" -> <<"mode">>
          [] k = "status" -> (IF i % 2 = 0 THEN "live" ELSE "scheduled")]

EventColl(n, layout) == [i \in 1..n |-> EventDoc(i, layout)]

ProductKeys(i) ==
    {"_id", "sale_event_id", "title", "price_original", "price_sale", "stock"}
    \cup (IF i % 3 = 0 THEN {} ELSE {"images"})

\* A stored SaleProduct document.
ProductDoc(i, layout) ==
    [k \in ProductKeys(i) |->
        CASE k = "_id" -> i
          [] k = "sale_event_id" -> (CASE layout = "one" -> (IF i = 1 THEN "ev2" ELSE "ev1")
                                       [] layout = "other" -> "ev2"
                                       [] OTHER -> (IF i % 2 = 0 THEN "ev1" ELSE "ev2"))
          [] k = "title" -> "Rhum"
          [] k = "images" -> (CASE i % 3 = 1 -> <<>>
                                [] i % 6 = 2 -> <<"a.jpg", "b.jpg">>
                                [] OTHER -> <<"c.jpg">>)
          [] k = "price_original" -> 20 + (i % 2)
          [] k = "price_sale" -> 10
          [] k = "stock" -> i % 4]

ProductColl(n, layout) == [i \in 1..n |-> ProductDoc(i, layout)]

SmallSizes == 0..SmallSize

EventSizes == SmallSizes \cup ((EventLimit - 1)..MaxEvents)

ProductSizes == SmallSizes \cup ((ProductLimit - 1)..MaxProducts)

(* ------------------------------ requests -------------------------------- *)
EmailPlain == <<"a", "@", "b", ".", "c">>
EmailOther == <<"z", "@", "b", ".", "c">>
EmailUpperDomain == <<"a", "@", "B", ".", "C">>
EmailNoAt == <<"a", "b", ".", "c">>
EmailNoDot == <<"a", "@", "b">>
EmailNoLocal == <<"@", "b", ".", "c">>

\* JSON bodies sent to POST /api/subscribe.
Payloads ==
    { [email |-> EmailPlain],
      [email |-> EmailOther, first_name |-> "Ana", sale_event_id |-> "ev1",
       source |-> "promo", accepted_marketing |-> FALSE],
      [email |-> EmailUpperDomain, source |-> None],
      [email |-> EmailNoAt],
      [email |-> EmailNoDot, first_name |-> "Ana"],
      [email |-> EmailNoLocal, accepted_marketing |-> FALSE],
      [first_name |-> "Ana"] }

\* The outcome of a driver call that raises nothing.
NoException == <<>>

\* Messages of the exceptions the database driver raises.
DriverErrors == {Msg(MaxMsgLen)}

Environments ==
    { [DATABASE_URL |-> "", DATABASE_NAME |-> ""],
      [DATABASE_URL |-> "mongodb://h", DATABASE_NAME |-> "runflash"] }

NoResp == [endpoint |-> "none", status |-> 0, body |-> <<>>]

NoSub == [email |-> <<>>]

(* ------------------------------- Init ----------------------------------- *)
TypeInit(eventColls, productColls) ==
    /\ dbAvailable \in BOOLEAN
    /\ env \in Environments
    /\ subscriber = <<>>
    /\ IF dbAvailable
       THEN /\ saleevent \in eventColls
            /\ saleproduct \in productColls
       ELSE /\ saleevent = <<>>
            /\ saleproduct = <<>>
    /\ clock = 1
    /\ reqs = <<>>
    /\ resp = NoResp

Init ==
    TypeInit({EventColl(n, "mixed") : n \in SmallSizes},
             {ProductColl(SmallSize, "mixed")})

InitCatalog ==
    /\ TypeInit({EventColl(n, l) : n \in EventSizes, l \in EventLayouts},
                {ProductColl(n, l) : n \in ProductSizes, l \in ProductLayouts})
    /\ env.DATABASE_NAME # ""

(* ------------------------------ handlers -------------------------------- *)
\* A handle that is taken to be there.
DbIsNotNone_Always == TRUE

\* db is not None
DbIsNotNone == dbAvailable

\* An exception that leaves a handler is answered by the framework.
InternalServerError(endpoint) ==
    [endpoint |-> endpoint, status |-> 500, body |-> "Internal Server Error"]

\* GET /
read_root ==
    /\ resp' = [endpoint |-> "/", status |-> 200,
                body |-> [message |-> "RunFlash backend ready"]]
    /\ UNCHANGED <<dbAvailable, env, subscriber, saleevent, saleproduct, clock, reqs>>

\* The body GET /test builds; outcome is NoException or the message of the
\* exception list_collection_names raises.
TestBody(outcome) ==
    LET initial == [backend |-> "Running",
                    database |-> "Not Available",
                    error |-> <<>>,
                    database_url |-> "Not Set",
                    database_name |-> "Not Set",
                    connection_status |-> "Not Connected",
                    collections |-> <<>>]
    IN IF DbIsNotNone
       THEN LET withEnv == [initial EXCEPT
                              !.database = "Available",
                              !.database_url =
                                  IF env.DATABASE_URL # "" THEN "Set" ELSE "Not Set",
                              !.database_name =
                                  IF env.DATABASE_NAME # "" THEN env.DATABASE_NAME
                                  ELSE "Unknown"]
            IN IF outcome = NoException
               THEN [withEnv EXCEPT
                       !.collections = Take(list_collection_names, CollectionsCut),
                       !.database = "Connected & Working",
                       !.connection_status = "Connected"]
               ELSE [withEnv EXCEPT
                       !.database = "Connected but error: ",
                       !.error = Take(outcome, InnerErrorCut)]
       ELSE [initial EXCEPT !.database = "Available but not initialized"]

\* GET /test
test_database ==
    /\ \E outcome \in IF DbIsNotNone THEN {NoException} \cup DriverErrors ELSE {NoException} :
          resp' = [endpoint |-> "/test", status |-> 200, body |-> TestBody(outcome)]
    /\ UNCHANGED <<dbAvailable, env, subscriber, saleevent, saleproduct, clock, reqs>>

\* EventCard(...) built from a raw document
EventCard(d, now) ==
    [id         |-> PyStr(d["_id"]),
     title      |-> Get(d, "title", ""),
     subtitle   |-> Get(d, "subtitle", None),
     banner_url |-> Get(d, "banner_url", None),
     start_at   |-> Get(d, "start_at", now),
     end_at     |-> Get(d, "end_at", now),
     status     |-> Get(d, "status", "scheduled"),
     categories |-> Get(d, "categories", <<>>)]

\* GET /api/events
list_events ==
    /\ resp' =
         IF dbAvailable
         THEN LET now == clock
                  docs == get_documents(saleevent, EndAtGte(saleevent, now), EventLimit)
              IN [endpoint |-> "/api/events", status |-> 200, now |-> now,
                  body |-> [i \in 1..Len(docs) |-> EventCard(docs[i], now)]]
         ELSE InternalServerError("/api/events")
    /\ UNCHANGED <<dbAvailable, env, subscriber, saleevent, saleproduct, clock, reqs>>

\* The last image in place of the first.
FirstImage_Last(d) ==
    LET images == Get(d, "images", <<>>)
    IN IF images = <<>> THEN None ELSE images[Len(images)]

\* (d.get("images") or [None])[0]
FirstImage(d) ==
    LET images == Get(d, "images", <<>>)
    IN IF images = <<>> THEN None ELSE images[1]

\* ProductCard(...) built from a raw document
ProductCard(d) ==
    [id             |-> PyStr(d["_id"]),
     title          |-> Get(d, "title", ""),
     price_original |-> Get(d, "price_original", 0),
     price_sale     |-> Get(d, "price_sale", 0),
     image          |-> FirstImage(d),
     stock          |-> Get(d, "stock", 0)]

\* GET /api/events/{event_id}/products
list_event_products(event_id) ==
    /\ resp' =
         IF dbAvailable
         THEN LET docs == get_documents(saleproduct,
                                        SaleEventIdIs(saleproduct, event_id),
                                        ProductLimit)
              IN [endpoint |-> "/api/events/{event_id}/products", status |-> 200,
                  event_id |-> event_id,
                  body |-> [i \in 1..Len(docs) |-> ProductCard(docs[i])]]
         ELSE InternalServerError("/api/events/{event_id}/products")
    /\ UNCHANGED <<dbAvailable, env, subscriber, saleevent, saleproduct, clock, reqs>>

\* POST /api/subscribe, up to the call of create_document: the body is
\* validated against SubscribePayload and, when valid, the Subscriber is built.
subscribe_validate(body) ==
    /\ Len(reqs) < MaxReq
    /\ reqs' = Append(reqs,
         IF PayloadValid(body)
         THEN [body |-> body, pc |-> "insert",
               sub |-> Subscriber(SubscribePayload(body)),
               exc |-> <<>>, inserted |-> 0,
               resp |-> [status |-> 0, ok |-> FALSE, id |-> <<>>, detail |-> <<>>]]
         ELSE [body |-> body, pc |-> "done", sub |-> NoSub,
               exc |-> <<>>, inserted |-> 0,
               resp |-> [status |-> 422, ok |-> FALSE, id |-> <<>>,
                         detail |-> <<"b", "o", "d", "y", ".", "e", "m", "a", "i", "l">>]])
    /\ UNCHANGED <<dbAvailable, env, subscriber, saleevent, saleproduct, clock, resp>>

\* A detail cut like the messages of GET /test.
ErrorDetail_Truncated(e) == Take(e, OuterErrorCut)

\* The detail of the HTTPException subscribe raises for exception message e.
ErrorDetail(e) == e

\* An insert that keeps one document per email.
SubscriberAfter_Dedup(sub) ==
    IF \E d \in Range(subscriber) : d["email"] = sub["email"]
    THEN subscriber
    ELSE InsertOne(subscriber, sub)

\* An insert that overwrites the document of the same email.
SubscriberAfter_Upsert(sub) ==
    IF \E i \in 1..Len(subscriber) : subscriber[i]["email"] = sub["email"]
    THEN LET i == CHOOSE i \in 1..Len(subscriber) : subscriber[i]["email"] = sub["email"]
         IN [subscriber EXCEPT ![i] =
                [k \in DOMAIN sub \cup {"_id"} |-> IF k = "_id" THEN i ELSE sub[k]]]
    ELSE InsertOne(subscriber, sub)

\* create_document("subscriber", sub): the subscriber collection afterwards
SubscriberAfter(sub) == InsertOne(subscriber, sub)

\* A response that drops the identifier.
SubscribeOk_NoId(inserted_id) ==
    [status |-> 200, ok |-> TRUE, id |-> <<>>, detail |-> <<>>]

\* return {"ok": True, "id": inserted_id}
SubscribeOk(inserted_id) ==
    [status |-> 200, ok |-> TRUE, id |-> inserted_id, detail |-> <<>>]

\* raise HTTPException(status_code=500, detail=str(e))
SubscribeError(e) ==
    [status |-> 500, ok |-> FALSE, id |-> <<>>, detail |-> ErrorDetail(e)]

\* POST /api/subscribe, the try block: create_document and the response.
\* outcome is NoException or the message of the exception the insert raises.
subscribe_insert(r, outcome) ==
    /\ reqs[r].pc = "insert"
    /\ IF dbAvailable /\ outcome = NoException
       THEN /\ subscriber' = SubscriberAfter(reqs[r].sub)
            /\ reqs' = [reqs EXCEPT ![r].pc = "done",
                          ![r].inserted = NewId(subscriber),
                          ![r].resp = SubscribeOk(InsertedId(subscriber))]
       ELSE LET e == IF dbAvailable THEN outcome ELSE DbUnavailableMsg
            IN /\ subscriber' = subscriber
               /\ reqs' = [reqs EXCEPT ![r].pc = "done",
                             ![r].exc = e,
                             ![r].resp = SubscribeError(e)]
    /\ UNCHANGED <<dbAvailable, env, saleevent, saleproduct, clock, resp>>

\* Time passes.
Tick ==
    /\ clock < MaxTime
    /\ clock' = clock + 1
    /\ UNCHANGED <<dbAvailable, env, subscriber, saleevent, saleproduct, reqs, resp>>

Next ==
    \/ read_root
    \/ test_database
    \/ list_events
    \/ \E event_id \in EventIds : list_event_products(event_id)
    \/ \E body \in Payloads : subscribe_validate(body)
    \/ \E r \in 1..Len(reqs) : \E outcome \in {NoException} \cup DriverErrors :
          subscribe_insert(r, outcome)

Spec == Init /\ [][Next]_vars

NextCatalog ==
    \/ list_events
    \/ \E event_id \in EventIds : list_event_products(event_id)
    \/ Tick

SpecCatalog == InitCatalog /\ [][NextCatalog]_vars


(* ======================= properties of the claims ======================= *)
\* Requests that have been answered.
Done == {r \in 1..Len(reqs) : reqs[r].pc = "done"}

\* The bodies whose e-mail address is well formed, named one by one.
WellFormedBody(body) ==
    "email" \in DOMAIN body /\ body["email"] \in {EmailPlain, EmailOther, EmailUpperDomain}

\* The bodies whose e-mail address is malformed, named one by one.
MalformedBody(body) ==
    "email" \in DOMAIN body /\ body["email"] \in {EmailNoAt, EmailNoDot, EmailNoLocal}

\* The insert of request r raised an exception.
InsertRaised(r) == reqs[r].exc # <<>>

\* The stored subscriber documents with identifier id.
StoredSubscriber(id) == {d \in Range(subscriber) : d["_id"] = id}

\* C1 as stated: every answered POST /api/subscribe with a valid payload
\* carries ok: true and a non-empty identifier.
C1_Original ==
    \A r \in Done :
        WellFormedBody(reqs[r].body) => reqs[r].resp.ok /\ reqs[r].resp.id # <<>>

\* C1 amended: every answered POST /api/subscribe with a valid payload whose
\* insert did not raise (the database is available and the driver call
\* succeeded) carries status 200, ok: true and a non-empty identifier, the
\* text of the _id of a document now stored in the subscriber collection.
C1_Amended ==
    \A r \in Done :
        WellFormedBody(reqs[r].body) /\ ~InsertRaised(r) =>
            /\ dbAvailable
            /\ reqs[r].resp.status = 200
            /\ reqs[r].resp.ok
            /\ reqs[r].resp.id # <<>>
            /\ \E d \in Range(subscriber) : PyStr(d["_id"]) = reqs[r].resp.id

C1_Witness ==
    \E r \in Done :
        /\ WellFormedBody(reqs[r].body)
        /\ reqs[r].resp.ok
        /\ reqs[r].resp.id = <<"2">>

\* C2: a POST /api/subscribe whose e-mail address is malformed is answered 422
\* by the step that receives it, and that step changes no collection; the
\* request takes no further step.
C2_MalformedRejected ==
    [][\A r \in 1..Len(reqs') :
          MalformedBody(reqs'[r].body) =>
              /\ reqs'[r].pc = "done"
              /\ reqs'[r].resp.status = 422
              /\ reqs'[r].inserted = 0
              /\ (r > Len(reqs) => collections' = collections)]_vars

C2_Witness ==
    \E r \in Done, q \in Done :
        /\ MalformedBody(reqs[r].body)
        /\ reqs[r].resp.status = 422
        /\ reqs[q].resp.ok
        /\ Len(subscriber) = 1

\* C9 as stated: when the insert raises, the answer is a 500 that is never
\* ok: true and whose detail is cut to a bounded length (the longest cut the
\* program makes anywhere is OuterErrorCut).
C9_Original ==
    \A r \in Done :
        InsertRaised(r) =>
            /\ reqs[r].resp.status = 500
            /\ ~reqs[r].resp.ok
            /\ Len(reqs[r].resp.detail) <= OuterErrorCut

\* C9 amended: when the insert raises, the answer is a 500 that is never
\* ok: true and whose detail is the whole exception message, not truncated.
C9_Amended ==
    \A r \in Done :
        InsertRaised(r) =>
            /\ reqs[r].resp.status = 500
            /\ ~reqs[r].resp.ok
            /\ reqs[r].resp.id = <<>>
            /\ reqs[r].resp.detail = reqs[r].exc
            /\ reqs[r].inserted = 0

C9_Witness ==
    \E r \in Done :
        /\ dbAvailable
        /\ InsertRaised(r)
        /\ reqs[r].resp.status = 500
        /\ Len(reqs[r].resp.detail) > OuterErrorCut


\* Requests answered ok: true.
Succeeded == {r \in Done : reqs[r].resp.ok}

\* The fields other than the address that a body must produce in the store:
\* the body's own value, or the default where the body has no such field.
DefaultsApplied(d, body) ==
    /\ d["first_name"] = Get(body, "first_name", None)
    /\ d["sale_event_id"] = Get(body, "sale_event_id", None)
    /\ d["source"] = Get(body, "source", "landing")
    /\ d["accepted_marketing"] = Get(body, "accepted_marketing", TRUE)

\* e with the characters after the "@" in lower case.
DomainLowered(e) ==
    [i \in 1..Len(e) |->
        IF \E j \in 1..(i - 1) : e[j] = "@" THEN Lower(e[i]) ELSE e[i]]

\* C7 as stated: after a successful subscribe the stored record carries the
\* payload's email and the payload's other fields, omitted fields replaced by
\* their defaults (source "landing", accepted_marketing true, first_name and
\* sale_event_id null).
C7_Original ==
    \A r \in Succeeded :
        \E d \in StoredSubscriber(reqs[r].inserted) :
            /\ d["email"] = reqs[r].body["email"]
            /\ DefaultsApplied(d, reqs[r].body)

\* C7 amended: as stated, except that the stored email is the payload's email
\* as the validator normalises it (the domain in lower case); it is the
\* payload's email itself when that is already normalised, as a@b.com is.
C7_Amended ==
    \A r \in Succeeded :
        \E d \in StoredSubscriber(reqs[r].inserted) :
            /\ d["email"] = DomainLowered(reqs[r].body["email"])
            /\ (reqs[r].body["email"] \in {EmailPlain, EmailOther}
                   => d["email"] = reqs[r].body["email"])
            /\ DefaultsApplied(d, reqs[r].body)

C7_Witness ==
    \E r \in Succeeded :
        /\ reqs[r].body = [email |-> EmailPlain]
        /\ \E d \in StoredSubscriber(reqs[r].inserted) :
              /\ d["email"] = EmailPlain
              /\ d["accepted_marketing"] = TRUE
              /\ d["source"] = "landing"

\* C8: the subscriber collection holds exactly one document per successful
\* subscribe request, whatever the order of the requests' steps and whether
\* or not they carry the same email; every successful request returns the
\* identifier of its own document, no two the same; and a request that is
\* about to insert can always do so, whatever the other requests are doing.
C8_IndependentInserts ==
    /\ Len(subscriber) = Cardinality(Succeeded)
    /\ \A r \in Succeeded :
          /\ reqs[r].inserted \in 1..Len(subscriber)
          /\ reqs[r].resp.id = PyStr(reqs[r].inserted)
          /\ subscriber[reqs[r].inserted]["_id"] = reqs[r].inserted
          /\ \A k \in SubscriberFields :
                subscriber[reqs[r].inserted][k] = reqs[r].sub[k]
    /\ \A r \in Succeeded, q \in Succeeded :
          r # q => reqs[r].resp.id # reqs[q].resp.id
    /\ \A r \in 1..Len(reqs) :
          reqs[r].pc = "insert" => ENABLED subscribe_insert(r, NoException)

\* Two requests with the same body, both successful, the one received first
\* inserted last.
C8_Witness ==
    /\ Len(reqs) >= 2
    /\ reqs[1].body = reqs[2].body
    /\ reqs[1].resp.ok
    /\ reqs[2].resp.ok
    /\ reqs[2].inserted < reqs[1].inserted
    /\ Len(subscriber) = 2

\* A step of a request that only reads: it leaves an answer in resp.
ReadStep == resp' # resp

\* C10: no step updates or deletes a stored document; the saleevent and
\* saleproduct collections never change; a step of GET /, GET /test,
\* GET /api/events or GET /api/events/{event_id}/products changes no
\* collection; and a step that changes a collection is a successful
\* subscribe that adds exactly one document at the end of subscriber.
C10_InsertOnly ==
    [][/\ saleevent' = saleevent
       /\ saleproduct' = saleproduct
       /\ Len(subscriber') >= Len(subscriber)
       /\ SubSeq(subscriber', 1, Len(subscriber)) = subscriber
       /\ (ReadStep => subscriber' = subscriber)
       /\ (subscriber' # subscriber =>
              /\ Len(subscriber') = Len(subscriber) + 1
              /\ \E r \in 1..Len(reqs) :
                    /\ reqs[r].pc = "insert"
                    /\ reqs'[r].resp.ok)]_vars

\* GET /api/events has answered after the subscriber collection grew to two
\* documents.
C10_Witness ==
    /\ Len(subscriber) = 2
    /\ saleevent # <<>>
    /\ resp.endpoint = "/api/events"
    /\ resp.status = 200

\* C6 as stated: with no database handle GET /test answers normally with
\* connection_status "Not Connected", no collections and the database text
\* "Not Available", and every answer of GET /api/events, POST /api/subscribe
\* and GET /api/events/{event_id}/products is a 5xx.
C6_Original ==
    ~dbAvailable =>
        /\ resp.endpoint = "/test" =>
              /\ resp.status = 200
              /\ resp.body.connection_status = "Not Connected"
              /\ resp.body.collections = <<>>
              /\ resp.body.database = "Not Available"
        /\ resp.endpoint \in {"/api/events", "/api/events/{event_id}/products"} =>
              resp.status >= 500
        /\ \A r \in Done : reqs[r].resp.status >= 500

\* C6 amended: with no database handle GET /test answers normally with
\* connection_status "Not Connected", no collections and the database text
\* "Available but not initialized"; every answer of GET /api/events and
\* GET /api/events/{event_id}/products is a 500, and so is every answer of
\* POST /api/subscribe to a valid payload (an invalid payload is still
\* answered 422); nothing is stored.
C6_Amended ==
    ~dbAvailable =>
        /\ resp.endpoint = "/test" =>
              /\ resp.status = 200
              /\ resp.body.connection_status = "Not Connected"
              /\ resp.body.collections = <<>>
              /\ resp.body.database = "Available but not initialized"
              /\ resp.body.error = <<>>
        /\ resp.endpoint \in {"/api/events", "/api/events/{event_id}/products"} =>
              resp.status = 500
        /\ \A r \in Done :
              /\ WellFormedBody(reqs[r].body) => reqs[r].resp.status = 500
              /\ ~WellFormedBody(reqs[r].body) => reqs[r].resp.status = 422
        /\ subscriber = <<>>

C6_Witness ==
    /\ ~dbAvailable
    /\ resp.endpoint = "/test"
    /\ resp.body.connection_status = "Not Connected"
    /\ \E r \in Done : reqs[r].resp.status = 500


\* The stored events whose end_at is not before now.
Upcoming(now) == {i \in 1..Len(saleevent) :
                     "end_at" \in DOMAIN saleevent[i] /\ saleevent[i]["end_at"] >= now}

\* The stored events whose end_at is before now.
Ended(now) == {i \in 1..Len(saleevent) :
                  "end_at" \in DOMAIN saleevent[i] /\ saleevent[i]["end_at"] < now}

\* The positions of the cards of a listing that show the document with _id id.
CardsOf(body, id) == {c \in 1..Len(body) : body[c].id = PyStr(id)}

EventsAnswer == resp.endpoint = "/api/events" /\ resp.status = 200

\* C3: a listing of GET /api/events evaluated at time now has at most 50
\* cards; every card shows a stored event whose end_at is not before now, with
\* that end_at; no stored event whose end_at is before now is shown; when at
\* most 50 stored events have end_at >= now each of them is shown exactly
\* once, and when more have, 50 cards are returned.  The endpoint fails only
\* when there is no database, and then nothing is stored.
C3_UpcomingEvents ==
    /\ resp.endpoint = "/api/events" /\ resp.status # 200 =>
          ~dbAvailable /\ saleevent = <<>>
    /\ EventsAnswer =>
          /\ Len(resp.body) <= 50
          /\ \A c \in 1..Len(resp.body) :
                \E i \in Upcoming(resp.now) :
                    /\ resp.body[c].id = PyStr(saleevent[i]["_id"])
                    /\ resp.body[c].end_at = saleevent[i]["end_at"]
          /\ \A i \in Ended(resp.now) :
                CardsOf(resp.body, saleevent[i]["_id"]) = {}
          /\ Cardinality(Upcoming(resp.now)) <= 50 =>
                \A i \in Upcoming(resp.now) :
                    Cardinality(CardsOf(resp.body, saleevent[i]["_id"])) = 1
          /\ Cardinality(Upcoming(resp.now)) > 50 => Len(resp.body) = 50

\* A listing cut at 50 cards while an ended event is stored.
C3_Witness ==
    /\ EventsAnswer
    /\ Len(resp.body) = 50
    /\ Cardinality(Upcoming(resp.now)) > 50
    /\ Ended(resp.now) # {}

ProductsAnswer == resp.endpoint = "/api/events/{event_id}/products" /\ resp.status = 200

\* C4: a listing of GET /api/events/{event_id}/products has at most 200
\* cards, and every card shows a stored product whose sale_event_id is the
\* requested id.
C4_ProductsOfEvent ==
    ProductsAnswer =>
        /\ Len(resp.body) <= 200
        /\ \A c \in 1..Len(resp.body) :
              \E i \in 1..Len(saleproduct) :
                  /\ resp.body[c].id = PyStr(saleproduct[i]["_id"])
                  /\ saleproduct[i]["sale_event_id"] = resp.event_id

\* A listing cut at 200 cards while a product of another event is stored.
C4_Witness ==
    /\ ProductsAnswer
    /\ Len(resp.body) = 200
    /\ \E i \in 1..Len(saleproduct) : saleproduct[i]["sale_event_id"] # resp.event_id
    /\ Cardinality({i \in 1..Len(saleproduct) :
                       saleproduct[i]["sale_event_id"] = resp.event_id}) > 200

\* C5: in every card of a product listing the image is the first element of
\* the image list of the stored product the card shows, and null when that
\* list is empty or the stored document has none.
C5_FirstImage ==
    ProductsAnswer =>
        \A c \in 1..Len(resp.body) :
            \A i \in 1..Len(saleproduct) :
                resp.body[c].id = PyStr(saleproduct[i]["_id"]) =>
                    LET d == saleproduct[i]
                    IN /\ "images" \notin DOMAIN d => resp.body[c].image = None
                       /\ "images" \in DOMAIN d /\ Len(d["images"]) = 0 =>
                             resp.body[c].image = None
                       /\ "images" \in DOMAIN d /\ Len(d["images"]) > 0 =>
                             resp.body[c].image = d["images"][1]

\* A listing with a card of a product of two images, a card of a product
\* with an empty list and a card of a product with no list.
C5_Witness ==
    /\ ProductsAnswer
    /\ \E c \in 1..Len(resp.body) : resp.body[c].image = "a.jpg"
    /\ \E c \in 1..Len(resp.body) : \E i \in 1..Len(saleproduct) :
          /\ resp.body[c].id = PyStr(saleproduct[i]["_id"])
          /\ "images" \notin DOMAIN saleproduct[i]
          /\ resp.body[c].image = None
    /\ \E c \in 1..Len(resp.body) : \E i \in 1..Len(saleproduct) :
          /\ resp.body[c].id = PyStr(saleproduct[i]["_id"])
          /\ "images" \in DOMAIN saleproduct[i]
          /\ saleproduct[i]["images"] = <<>>
          /\ resp.body[c].image = None


====
